---- MODULE Spec2Model ----
(***************************************************************************)
(* Rentverse backend: password login with account lockout and new-device   *)
(* notification, MFA login, TOTP enrolment and OAuth account linking       *)
(* (routes/auth.js, routes/mfa.js), lease signing (routes/lease.js,        *)
(* services/leases.service.js) and activity monitoring                     *)
(* (services/monitoring.service.js, modules/users/users.controller.js).    *)
(* Every handler is an async function: each `await` is a point where other *)
(* requests and the clock may move, so a handler is a chain of steps, one  *)
(* per awaited call, and a request's position is its pc.  Database calls   *)
(* may fail; the failure is an input of the step.                          *)
(***************************************************************************)
EXTENDS Integers, Sequences, FiniteSets, TLC

(* ------------------------------ bounds --------------------------------- *)
\* Minutes the clock advances per Tick, and how many ticks are explored.
TickMinutes == 20
MaxTicks == 1
\* Rows the ActivityLog table may hold before no further request is started.
MaxLog == 7
\* Rows explored when the client address and user-agent vary.
MaxLogAnomaly == 3
\* Rows explored when handlers interleave.
MaxLogConcurrent == 2
\* Rows the Notification table may hold before no further request is started.
MaxNotifications == 2
\* Database calls that fail in one behaviour.
MaxFaults == 1
\* Shared secrets speakeasy.generateSecret may return, and the codes a secret
\* can stand for.
NumSecrets == 2
NumCodes == 16
\* Rows explored when logins and the MFA routes are mixed.
MaxLogMfa == 2
\* Rows explored when logins and profile updates are mixed.
MaxLogMonitoring == 5
\* activity-log rows after which no further login is started, where password
\* and MFA logins mix
MaxLogAccess == 6

(* ------------------------- program constants --------------------------- *)
\* isAccountLocked: 15 minute window, 5 failures.
LockWindowMinutes == 15
MaxFailedLogins == 5
\* login: history of the last 30 days, at most 20 rows.
HistoryDays == 30
HistoryTake == 20
\* /mfa/verify: token.length !== 6.
TokenLength == 6
\* speakeasy.totp.verify window, routes/auth.js and routes/mfa.js.
VerifyWindowAuth == 2
VerifyWindowMfa == 6

HistoryWindowMinutes == HistoryDays * 24 * 60
\* checkBruteForce: windowMinutes, maxAttempts.
BruteWindowMinutes == 15
BruteMaxAttempts == 5

(* ------------------------------ inputs --------------------------------- *)
UserIds == {1, 2}
NoUserId == 0
Emails == {"active@x", "inactive@x", "nobody@x"}
Passwords == {"", "right", "wrong"}
\* The request bodies explored: every password for the active account, one
\* well-formed body for the deactivated account and for no account.
ActiveBodies == {[email |-> "active@x", password |-> p] : p \in Passwords}
LoginBodies ==
  ActiveBodies \cup {[email |-> e, password |-> "right"] : e \in Emails}
\* req.ip || x-forwarded-for || remoteAddress
IpAddresses == {"ip1", "ip2"}
\* the user-agent header; NoHeader is an absent header (undefined)
NoHeader == "<undefined>"
UserAgents == {NoHeader, "ua1"}
\* The two files that define the MFA routes.
AuthJs == "routes/auth.js"
MfaJs == "routes/mfa.js"
Files == {AuthJs, MfaJs}
\* mfaSecret: null, or a generated secret.
NoSecret == 0
Secrets == 1..NumSecrets
\* req.body.token: absent, or a string of some length.
NoToken == [length |-> 0, value |-> 0]
Tokens ==
  {NoToken, [length |-> TokenLength - 1, value |-> 0]}
    \cup {[length |-> TokenLength, value |-> v] : v \in 0..(NumCodes - 1)}

\* Leases: lease1 is between tenant 1 and landlord 2; lease2 names user 1 as
\* both.  User 3 is party to neither.  A lease id may name no lease.
LeaseIds == {"lease1", "lease2"}
NoLeaseId == "lease9"
SignerIds == {1, 2, 3}
\* null, and the signature strings a request may carry ("" is the empty one).
NoSignature == "<null>"
Signatures == {NoSignature, "", "sigA", "sigB"}
\* a null timestamp
NoDate == 0 - 1
InitLeases ==
  [id \in LeaseIds |->
     [tenantId |-> 1, landlordId |-> IF id = "lease1" THEN 2 ELSE 1,
      tenantSignature |-> NoSignature, landlordSignature |-> NoSignature,
      tenantSignedAt |-> NoDate, landlordSignedAt |-> NoDate,
      signatureStatus |-> "PENDING"]]

\* OAuth: the provider named by a request (absent, one the route does not
\* know, or a known one) and the account id at that provider (absent or an
\* id).  One known provider stands for the five of the route, which treats
\* them alike.
NoProvider == "<undefined>"
Providers == {"google"}
ProviderInputs == {NoProvider, "linkedin"} \cup Providers
NoProviderId == "<null>"
ProviderIdInputs == {NoProviderId, "p1", "p2"}
\* Whether the User table rejects a provider id that another row holds.  The
\* schema states no such constraint.
ProviderIdUnique == FALSE

VARIABLES now, users, log, notifications, req, failedCalls, faults, leases,
          alerts, providerIds

vars ==
  <<now, users, log, notifications, req, failedCalls, faults, leases, alerts,
    providerIds>>

\* Request slots: a slot holds one handler invocation from its start to its
\* response.  Requests handled one at a time use the first slot only.
Slots == {1, 2}
Sequential == {1}

(* ------------------------------ helpers -------------------------------- *)
\* bcrypt.hash / bcrypt.compare: the stored value is not the password.
Hash(pw) == <<"bcrypt", pw>>
BcryptCompare(pw, hash) == hash = Hash(pw)

NullUser ==
  [id |-> NoUserId, email |-> "", isActive |-> FALSE, password |-> Hash(""),
   mfaEnabled |-> FALSE, mfaSecret |-> NoSecret]

\* prisma.user.findUnique({ where: { email } })
FindUserByEmail(us, email) ==
  IF \E u \in UserIds : us[u].email = email
  THEN us[CHOOSE u \in UserIds : us[u].email = email]
  ELSE NullUser

\* A full action name is its words, "LOGIN_FAILED" = <<"LOGIN", "FAILED">>.
\* fullAction.includes('_X'): the word X occurs after the first word.
Includes(fullAction, word) ==
  \E i \in 2..Len(fullAction) : fullAction[i] = word

\* fullAction.replace('_X', ''): the first such word is removed.
Replace(fullAction, word) ==
  LET i == CHOOSE k \in 2..Len(fullAction) :
             /\ fullAction[k] = word
             /\ \A j \in 2..(k - 1) : fullAction[j] # word
  IN  SubSeq(fullAction, 1, i - 1) \o SubSeq(fullAction, i + 1, Len(fullAction))

\* Mutant: a failed login is given the status 'FAILED', which isAccountLocked
\* does not count.
ParseAction_FailedStatus(fullAction) ==
  IF Includes(fullAction, "SUCCESS")
  THEN [action |-> Replace(fullAction, "SUCCESS"), status |-> "SUCCESS"]
  ELSE IF Includes(fullAction, "FAILED")
  THEN [action |-> Replace(fullAction, "FAILED"), status |-> "FAILED"]
  ELSE [action |-> fullAction, status |-> "INFO"]

\* Mutant: a blocked login is recorded like a failed one.
ParseAction_BlockedAsFailure(fullAction) ==
  IF Includes(fullAction, "SUCCESS")
  THEN [action |-> Replace(fullAction, "SUCCESS"), status |-> "SUCCESS"]
  ELSE IF Includes(fullAction, "FAILED")
  THEN [action |-> Replace(fullAction, "FAILED"), status |-> "FAILURE"]
  ELSE IF Includes(fullAction, "BLOCKED")
  THEN [action |-> Replace(fullAction, "BLOCKED"), status |-> "FAILURE"]
  ELSE [action |-> fullAction, status |-> "INFO"]

\* logActivity lines 51-60: action and status from the full action name.
ParseAction(fullAction) ==
  IF Includes(fullAction, "SUCCESS")
  THEN [action |-> Replace(fullAction, "SUCCESS"), status |-> "SUCCESS"]
  ELSE IF Includes(fullAction, "FAILED")
  THEN [action |-> Replace(fullAction, "FAILED"), status |-> "FAILURE"]
  ELSE [action |-> fullAction, status |-> "INFO"]

\* logActivity lines 62-73: the row handed to prisma.activityLog.create.
ActivityRow(userId, fullAction, ip, ua, t) ==
  [userId |-> userId,
   action |-> ParseAction(fullAction).action,
   status |-> ParseAction(fullAction).status,
   ipAddress |-> ip,
   userAgent |-> IF ua = NoHeader THEN "Unknown" ELSE ua,
   createdAt |-> t]

\* logActivity: the table after the call; a failed create is swallowed.
LogActivity(l, userId, fullAction, ip, ua, t, ok) ==
  IF ok THEN Append(l, ActivityRow(userId, fullAction, ip, ua, t)) ELSE l

\* Mutant: only the failures after the user's last successful login count.
FailedLogins_SinceSuccess(l, userId, t) ==
  Cardinality({i \in 1..Len(l) :
                 /\ l[i].userId = userId
                 /\ l[i].action = <<"LOGIN">>
                 /\ l[i].status = "FAILURE"
                 /\ l[i].createdAt >= t - LockWindowMinutes
                 /\ \A j \in (i + 1)..Len(l) :
                      ~ (l[j].userId = userId /\ l[j].status = "SUCCESS")})

\* prisma.activityLog.count of isAccountLocked.
FailedLogins(l, userId, t) ==
  Cardinality({i \in 1..Len(l) :
                 /\ l[i].userId = userId
                 /\ l[i].action = <<"LOGIN">>
                 /\ l[i].status = "FAILURE"
                 /\ l[i].createdAt >= t - LockWindowMinutes})

\* Mutant: a failed count reports "locked".
IsAccountLocked_FailClosed(l, userId, t, ok) ==
  IF ok THEN FailedLogins(l, userId, t) >= MaxFailedLogins ELSE TRUE

\* Mutant: locked only above the threshold.
IsAccountLocked_OffByOne(l, userId, t, ok) ==
  IF ok THEN FailedLogins(l, userId, t) > MaxFailedLogins ELSE FALSE

\* isAccountLocked: a failed count reports "not locked".
IsAccountLocked(l, userId, t, ok) ==
  IF ok THEN FailedLogins(l, userId, t) >= MaxFailedLogins ELSE FALSE

Min(a, b) == IF a <= b THEN a ELSE b

\* prisma.activityLog.findMany of the login handler: the ids (positions) of the
\* rows, newest first.  Rows are inserted in createdAt order, so the newest
\* row is the one inserted last.
RecentLogins(l, userId, t) ==
  LET S == {i \in 1..Len(l) :
              /\ l[i].userId = userId
              /\ l[i].action = <<"LOGIN">>
              /\ l[i].status = "SUCCESS"
              /\ l[i].createdAt >= t - HistoryWindowMinutes}
      n == Cardinality(S)
      desc == [k \in 1..n |->
                 CHOOSE i \in S : Cardinality({j \in S : j > i}) = k - 1]
  IN  SubSeq(desc, 1, Min(n, HistoryTake))

\* Mutant: the newest row is not skipped.
PreviousHistory_NoSlice(recentLogins) == recentLogins

\* recentLogins.slice(1)
PreviousHistory(recentLogins) ==
  IF recentLogins = <<>> THEN <<>> ELSE Tail(recentLogins)

\* !previousHistory.some(log => log.userAgent === currentDevice)
IsNewDevice(l, previousHistory, ua) ==
  ~ \E k \in 1..Len(previousHistory) : l[previousHistory[k]].userAgent = ua

\* !previousHistory.some(log => log.ipAddress === currentIp)
IsNewIp(l, previousHistory, ip) ==
  ~ \E k \in 1..Len(previousHistory) : l[previousHistory[k]].ipAddress = ip

\* Mutant: both must be new.
ShouldNotify_And(isNewDevice, isNewIp) == isNewDevice /\ isNewIp

\* if (isNewDevice || isNewIp)
ShouldNotify(isNewDevice, isNewIp) == isNewDevice \/ isNewIp

(* --------------------------- request state ----------------------------- *)
\* A slot's record: the handler's locals, its response (status, body), and
\* what it did (calls, ownEntry, fetched, compared, created, ...), kept so
\* that the handler's effect can be stated once it has responded.
IdleReq ==
  [kind |-> "none", pc |-> "idle",
   email |-> "", password |-> "", ip |-> "", ua |-> "",
   user |-> NullUser, locked |-> FALSE, fullAction |-> <<>>,
   logStatus |-> "", provider |-> NoProvider, providerId |-> NoProviderId,
   isNewDevice |-> FALSE, isNewIp |-> FALSE,
   file |-> "", caller |-> NoUserId, userId |-> NoUserId, token |-> NoToken,
   leaseId |-> "", signature |-> NoSignature, lease |-> InitLeases["lease1"],
   data |-> InitLeases["lease1"], leasesBefore |-> InitLeases,
   secret |-> NoSecret, verified |-> FALSE, enabledBefore |-> FALSE,
   secretBefore |-> NoSecret, callsAtCheck |-> 0, wrongAfterWrite |-> 0,
   status |-> 0, body |-> "", failed |-> {},
   checkedAt |-> 0, failedLoginsAtCheck |-> 0,
   wrongAtCheck |-> 0, loggedWrongAtCheck |-> 0, compared |-> FALSE,
   calls |-> <<>>, ownEntry |-> 0, notificationsBefore |-> 0,
   queried |-> FALSE, fetched |-> <<>>, compareSet |-> <<>>, created |-> 0]

\* The tables and the clock, as one value a handler step maps to the next.
World ==
  [now |-> now, users |-> users, log |-> log,
   notifications |-> notifications, failedCalls |-> failedCalls,
   faults |-> faults, leases |-> leases, alerts |-> alerts,
   providerIds |-> providerIds]

Respond(rec, status, body) ==
  [rec EXCEPT !.pc = "done", !.status = status, !.body = body]

\* Mutant: the token is returned whatever mfaEnabled says.
LoginSuccessResponse_IgnoresMfa(rec) == Respond(rec, 200, "token")

\* login lines 366-389: the response of a password-valid login.
LoginSuccessResponse(rec) ==
  IF rec.user.mfaEnabled
  THEN Respond(rec, 200, "requiresMFA")
  ELSE Respond(rec, 200, "token")

(* ------------------------------ POST /login ---------------------------- *)
\* Each step is the handler's code from one awaited call's return to the next
\* await (or the response); ok says whether the awaited call succeeded.

\* lines 286-295: validation, then the user lookup is awaited.
LoginBegin(w, email, password, ip, ua) ==
  LET rec == [IdleReq EXCEPT !.kind = "login", !.email = email,
                             !.password = password, !.ip = ip, !.ua = ua,
                             !.notificationsBefore = Len(w.notifications)]
  IN  IF password = ""
      THEN Respond(rec, 400, "errors")
      ELSE [rec EXCEPT !.pc = "findUser"]

\* lines 295-304: the lookup returns; unknown or inactive users get 401.
LoginFindUser(w, rec, ok) ==
  LET user == FindUserByEmail(w.users, rec.email)
  IN  [w |-> w,
       rec |-> IF ~ ok
               THEN Respond(rec, 500, "Internal server error")
               ELSE IF user.id = NoUserId \/ ~ user.isActive
               THEN Respond([rec EXCEPT !.user = user], 401,
                            "Invalid credentials")
               ELSE [rec EXCEPT !.user = user, !.pc = "isAccountLocked"]]

\* lines 304-315: isAccountLocked returns; locked: LOGIN_BLOCKED is logged,
\* otherwise bcrypt.compare is awaited.
LoginIsAccountLocked(w, rec, ok) ==
  LET locked == IsAccountLocked(w.log, rec.user.id, w.now, ok)
      wrong == {i \in 1..Len(w.failedCalls) :
                  /\ w.failedCalls[i].userId = rec.user.id
                  /\ w.failedCalls[i].at >= w.now - LockWindowMinutes}
      seen == [rec EXCEPT
                 !.locked = locked, !.checkedAt = w.now,
                 !.failedLoginsAtCheck =
                    FailedLogins(w.log, rec.user.id, w.now),
                 !.wrongAtCheck = Cardinality(wrong),
                 !.callsAtCheck = Len(w.failedCalls),
                 !.loggedWrongAtCheck =
                    Cardinality({i \in wrong : w.failedCalls[i].ok})]
  IN  [w |-> w,
       rec |-> IF locked
               THEN [seen EXCEPT !.pc = "logActivity",
                                 !.fullAction = <<"LOGIN", "BLOCKED">>]
               ELSE [seen EXCEPT !.pc = "compare"]]

\* lines 315-323: bcrypt.compare returns; the outcome is logged.
LoginCompare(w, rec, ok) ==
  [w |-> w,
   rec |-> [rec EXCEPT
              !.compared = TRUE, !.pc = "logActivity",
              !.fullAction =
                 IF BcryptCompare(rec.password, rec.user.password)
                 THEN <<"LOGIN", "SUCCESS">>
                 ELSE <<"LOGIN", "FAILED">>]]

\* lines 306-311, 318-319, 323-327: logActivity returns; a blocked or failed
\* login responds, a successful one queries its history.
LoginLogActivity(w, rec, ok) ==
  LET wrong == {i \in 1..Len(w.failedCalls) :
                  /\ w.failedCalls[i].userId = rec.user.id
                  /\ w.failedCalls[i].at >= w.now - LockWindowMinutes}
      did == [rec EXCEPT
                !.calls = Append(@, rec.fullAction),
                !.ownEntry = IF ok THEN Len(w.log) + 1 ELSE 0,
                !.wrongAfterWrite = Cardinality(wrong) + 1]
  IN  [w |-> [w EXCEPT
                !.log = LogActivity(w.log, rec.user.id, rec.fullAction,
                                    rec.ip, rec.ua, w.now, ok),
                !.failedCalls =
                   IF rec.fullAction = <<"LOGIN", "FAILED">>
                   THEN Append(@, [userId |-> rec.user.id, at |-> w.now,
                                   ok |-> ok])
                   ELSE @],
       rec |-> IF rec.fullAction = <<"LOGIN", "BLOCKED">>
               THEN Respond(did, 423, "Account temporarily locked")
               ELSE IF rec.fullAction = <<"LOGIN", "FAILED">>
               THEN Respond(did, 401, "Invalid credentials")
               ELSE [did EXCEPT !.pc = "findMany"]]

\* Mutant: a failed history query is not caught and ends the login with 500.
LoginFindRecent_Throws(w, rec, ok) ==
  LET recentLogins == RecentLogins(w.log, rec.user.id, w.now)
      previousHistory == PreviousHistory(recentLogins)
      isNewDevice == IsNewDevice(w.log, previousHistory, rec.ua)
      isNewIp == IsNewIp(w.log, previousHistory, rec.ip)
      asked == [rec EXCEPT !.queried = TRUE]
      got == [asked EXCEPT
                !.fetched = recentLogins, !.compareSet = previousHistory,
                !.isNewDevice = isNewDevice, !.isNewIp = isNewIp]
  IN  [w |-> w,
       rec |-> IF ~ ok
               THEN Respond(asked, 500, "Internal server error")
               ELSE IF ShouldNotify(isNewDevice, isNewIp)
               THEN [got EXCEPT !.pc = "createNotification"]
               ELSE LoginSuccessResponse(got)]

\* lines 327-364: findMany returns; the history is compared; a failed query
\* is caught and the login goes on.
LoginFindRecent(w, rec, ok) ==
  LET recentLogins == RecentLogins(w.log, rec.user.id, w.now)
      previousHistory == PreviousHistory(recentLogins)
      isNewDevice == IsNewDevice(w.log, previousHistory, rec.ua)
      isNewIp == IsNewIp(w.log, previousHistory, rec.ip)
      asked == [rec EXCEPT !.queried = TRUE]
      got == [asked EXCEPT
                !.fetched = recentLogins, !.compareSet = previousHistory,
                !.isNewDevice = isNewDevice, !.isNewIp = isNewIp]
  IN  [w |-> w,
       rec |-> IF ~ ok
               THEN LoginSuccessResponse(asked)
               ELSE IF ShouldNotify(isNewDevice, isNewIp)
               THEN [got EXCEPT !.pc = "createNotification"]
               ELSE LoginSuccessResponse(got)]

\* lines 351-389: notification.create returns (a failure is caught), then
\* the MFA-required response or the token.
LoginCreateNotification(w, rec, ok) ==
  [w |-> [w EXCEPT
            !.notifications =
               IF ok
               THEN Append(@, [userId |-> rec.user.id,
                               what |-> IF rec.isNewDevice THEN "device"
                                        ELSE "IP address",
                               ip |-> rec.ip])
               ELSE @],
   rec |-> LoginSuccessResponse(
             [rec EXCEPT !.created = IF ok THEN 1 ELSE 0])]

(* ------------------------------- TOTP ---------------------------------- *)
\* speakeasy: the time step is 30 seconds; the clock counts minutes.
TotpCounter(t) == 2 * t

\* The code a secret stands for at a counter.
TotpCode(secret, counter) == (5 * secret + counter) % NumCodes

\* speakeasy.totp.verify({ secret, token, window }): the token has the length
\* of a code and is the code of a counter at most `window` steps from the
\* current one.
TotpVerify(secret, token, window, t) ==
  /\ token.length = TokenLength
  /\ \E d \in (0 - window)..window :
       token.value = TotpCode(secret, TotpCounter(t) + d)

VerifyWindow(file) == IF file = AuthJs THEN VerifyWindowAuth ELSE VerifyWindowMfa

SetUser(w, u, field, value) ==
  [w EXCEPT !.users = [@ EXCEPT ![u] = [@ EXCEPT ![field] = value]]]

(* ------------------------------ GET /mfa/setup ------------------------- *)
\* auth.js 1146-1157, mfa.js 10-20: a secret is generated and the update of
\* the caller's row is awaited.
MfaSetupBegin(w, file, caller, secret) ==
  [IdleReq EXCEPT !.kind = "mfaSetup", !.pc = "storeSecret", !.file = file,
                  !.caller = caller, !.secret = secret,
                  !.enabledBefore = w.users[caller].mfaEnabled,
                  !.secretBefore = w.users[caller].mfaSecret]

\* auth.js 1154-1169, mfa.js 17-32: the update returns; the secret is sent.
MfaStoreSecret(w, rec, ok) ==
  IF ok
  THEN [w |-> SetUser(w, rec.caller, "mfaSecret", rec.secret),
        rec |-> Respond(rec, 200, "secret")]
  ELSE [w |-> w, rec |-> Respond(rec, 500, "Failed to generate MFA setup")]

(* ----------------------------- POST /mfa/verify ------------------------ *)
\* auth.js 1201-1215, mfa.js 36-50: the token's form is checked and the
\* caller's secret is read.
MfaVerifyBegin(w, file, caller, token) ==
  LET rec == [IdleReq EXCEPT !.kind = "mfaVerify", !.file = file,
                             !.caller = caller, !.token = token,
                             !.enabledBefore = w.users[caller].mfaEnabled]
  IN  IF token = NoToken \/ token.length # TokenLength
      THEN Respond(rec, 400, "valid 6-digit code")
      ELSE [rec EXCEPT !.pc = "readSecret"]

\* auth.js 1212-1260: the secret is read; without one 400; the code is
\* verified; a valid code awaits the update, an invalid one gets 400.
MfaReadSecretAuth(w, rec, ok) ==
  LET secret == w.users[rec.caller].mfaSecret
      verified == TotpVerify(secret, rec.token, VerifyWindow(AuthJs), w.now)
      got == [rec EXCEPT !.secret = secret]
  IN  [w |-> w,
       rec |-> IF ~ ok
               THEN Respond(rec, 500, "Verification failed")
               ELSE IF secret = NoSecret
               THEN Respond(got, 400, "MFA setup not completed")
               ELSE IF verified
               THEN [got EXCEPT !.verified = TRUE, !.pc = "enable"]
               ELSE Respond(got, 400, "Invalid or expired code")]

\* mfa.js 47-73, 91-97: the secret is read; without one 400; the code is
\* verified; then logActivity, which routes/mfa.js neither defines nor
\* imports, is called: the ReferenceError is caught and answered with 500.
MfaReadSecretMfa(w, rec, ok) ==
  LET secret == w.users[rec.caller].mfaSecret
      verified == TotpVerify(secret, rec.token, VerifyWindow(MfaJs), w.now)
      got == [rec EXCEPT !.secret = secret]
  IN  [w |-> w,
       rec |-> IF ~ ok
               THEN Respond(rec, 500, "Server error during verification")
               ELSE IF secret = NoSecret
               THEN Respond(got, 400, "MFA setup not completed")
               ELSE Respond([got EXCEPT !.verified = verified], 500,
                            "Server error during verification")]

MfaReadSecret(w, rec, ok) ==
  IF rec.file = AuthJs
  THEN MfaReadSecretAuth(w, rec, ok)
  ELSE MfaReadSecretMfa(w, rec, ok)

\* auth.js 1231-1240, 1261-1267: the update to mfaEnabled returns.
MfaEnable(w, rec, ok) ==
  IF ok
  THEN [w |-> SetUser(w, rec.caller, "mfaEnabled", TRUE),
        rec |-> Respond(rec, 200, "enabled")]
  ELSE [w |-> w, rec |-> Respond(rec, 500, "Verification failed")]

(* ---------------------------- POST /mfa/disable ------------------------ *)
\* auth.js 1286-1288, mfa.js 101-103: the update is awaited.
MfaDisableBegin(w, file, caller) ==
  [IdleReq EXCEPT !.kind = "mfaDisable", !.pc = "clear", !.file = file,
                  !.caller = caller,
                  !.enabledBefore = w.users[caller].mfaEnabled]

\* Mutant: the flag is cleared and the secret is kept.
MfaClear_KeepsSecret(w, rec, ok) ==
  IF ok
  THEN [w |-> SetUser(w, rec.caller, "mfaEnabled", FALSE),
        rec |-> Respond(rec, 200, "disabled")]
  ELSE [w |-> w, rec |-> Respond(rec, 500, "Failed to disable MFA")]

\* auth.js 1288-1307, mfa.js 103-113: the update returns.
MfaClear(w, rec, ok) ==
  IF ok
  THEN [w |-> SetUser(SetUser(w, rec.caller, "mfaEnabled", FALSE),
                      rec.caller, "mfaSecret", NoSecret),
        rec |-> Respond(rec, 200, "disabled")]
  ELSE [w |-> w, rec |-> Respond(rec, 500, "Failed to disable MFA")]

(* ----------------------------- POST /mfa/login ------------------------- *)
\* prisma.user.findUnique({ where: { id } })
FindUserById(us, id) == IF id \in UserIds THEN us[id] ELSE NullUser

\* auth.js 1054-1067: userId and token are required; the user is looked up.
MfaLoginBegin(w, userId, token) ==
  LET rec == [IdleReq EXCEPT !.kind = "mfaLogin", !.userId = userId,
                             !.token = token]
  IN  IF userId = NoUserId \/ token = NoToken
      THEN Respond(rec, 400, "userId and token are required")
      ELSE [rec EXCEPT !.pc = "findMfaUser"]

\* Mutant: the token is issued without verifying the code.
MfaLoginFindUser_NoVerify(w, rec, ok) ==
  LET user == FindUserById(w.users, rec.userId)
      got == [rec EXCEPT !.user = user, !.secret = user.mfaSecret,
                         !.enabledBefore = user.mfaEnabled,
                         !.checkedAt = w.now,
                         !.failedLoginsAtCheck =
                            FailedLogins(w.log, user.id, w.now)]
  IN  [w |-> w,
       rec |-> IF ~ ok
               THEN Respond(rec, 500, "Internal server error")
               ELSE IF user.id = NoUserId \/ ~ user.mfaEnabled
                       \/ user.mfaSecret = NoSecret
               THEN Respond(got, 400, "MFA not configured for this user")
               ELSE Respond(got, 200, "token")]

\* auth.js 1065-1129: the lookup returns; a user without MFA gets 400; the
\* code is verified with window 2; an invalid code gets 401, a valid one the
\* token.  No activity is logged.
MfaLoginFindUser(w, rec, ok) ==
  LET user == FindUserById(w.users, rec.userId)
      verified == TotpVerify(user.mfaSecret, rec.token, VerifyWindowAuth,
                             w.now)
      got == [rec EXCEPT !.user = user, !.secret = user.mfaSecret,
                         !.enabledBefore = user.mfaEnabled,
                         !.checkedAt = w.now,
                         !.failedLoginsAtCheck =
                            FailedLogins(w.log, user.id, w.now)]
  IN  [w |-> w,
       rec |-> IF ~ ok
               THEN Respond(rec, 500, "Internal server error")
               ELSE IF user.id = NoUserId \/ ~ user.mfaEnabled
                       \/ user.mfaSecret = NoSecret
               THEN Respond(got, 400, "MFA not configured for this user")
               ELSE IF ~ verified
               THEN Respond(got, 401, "Invalid or expired MFA code")
               ELSE Respond([got EXCEPT !.verified = TRUE], 200, "token")]

(* -------------------------- POST /leases/:id/sign ---------------------- *)
\* !req.body.signature: null, undefined and the empty string are falsy.
Falsy(signature) == signature \in {NoSignature, ""}

\* Mutant: TENANT_SIGNED is tested before FULLY_SIGNED.
NewStatus_TenantFirst(newTenantSigned, newLandlordSigned) ==
  IF newTenantSigned THEN "TENANT_SIGNED"
  ELSE IF newTenantSigned /\ newLandlordSigned THEN "FULLY_SIGNED"
  ELSE IF newLandlordSigned THEN "LANDLORD_SIGNED"
  ELSE "PENDING"

\* leases.service.js 30-37
NewStatus(newTenantSigned, newLandlordSigned) ==
  IF newTenantSigned /\ newLandlordSigned THEN "FULLY_SIGNED"
  ELSE IF newTenantSigned THEN "TENANT_SIGNED"
  ELSE IF newLandlordSigned THEN "LANDLORD_SIGNED"
  ELSE "PENDING"

\* Mutant: the route does not require a signature.
SignBegin_NoValidation(w, leaseId, signature, userId) ==
  [IdleReq EXCEPT !.kind = "sign", !.leaseId = leaseId,
                  !.signature = signature, !.userId = userId,
                  !.leasesBefore = w.leases, !.pc = "findLease"]

\* lease.js 7-18, leases.service.js 4-8: a request without a signature gets
\* 400; otherwise signLease starts and the lease is looked up.
SignBegin(w, leaseId, signature, userId) ==
  LET rec == [IdleReq EXCEPT !.kind = "sign", !.leaseId = leaseId,
                             !.signature = signature, !.userId = userId,
                             !.leasesBefore = w.leases]
  IN  IF Falsy(signature)
      THEN Respond(rec, 400, "Signature is required")
      ELSE [rec EXCEPT !.pc = "findLease"]

\* leases.service.js 42-52: the data of the update, from the lease as read.
SignData(lease, signature, userId, t) ==
  LET isTenant == lease.tenantId = userId
      isLandlord == lease.landlordId = userId
      currentTenantSigned == lease.tenantSignature # NoSignature
      currentLandlordSigned == lease.landlordSignature # NoSignature
      newTenantSigned == IF isTenant THEN TRUE ELSE currentTenantSigned
      newLandlordSigned == IF isLandlord THEN TRUE ELSE currentLandlordSigned
  IN  [lease EXCEPT
         !.tenantSignature = IF isTenant THEN signature ELSE @,
         !.landlordSignature = IF isLandlord THEN signature ELSE @,
         !.tenantSignedAt = IF isTenant THEN t ELSE @,
         !.landlordSignedAt = IF isLandlord THEN t ELSE @,
         !.signatureStatus = NewStatus(newTenantSigned, newLandlordSigned)]

\* Mutant: both timestamps are set to the time of the call.
SignFindLease_StampsBoth(w, rec, ok) ==
  LET found == rec.leaseId \in LeaseIds
      lease == IF found THEN w.leases[rec.leaseId] ELSE rec.lease
  IN  [w |-> w,
       rec |-> IF ~ ok
               THEN Respond(rec, 500, "Internal Server Error")
               ELSE IF ~ found
               THEN Respond(rec, 404, "Lease not found")
               ELSE IF lease.tenantId # rec.userId
                       /\ lease.landlordId # rec.userId
               THEN Respond([rec EXCEPT !.lease = lease], 403,
                            "You are not authorized to sign this lease")
               ELSE [rec EXCEPT
                       !.lease = lease, !.pc = "updateLease",
                       !.data = [SignData(lease, rec.signature, rec.userId,
                                          w.now)
                                   EXCEPT !.tenantSignedAt = w.now,
                                          !.landlordSignedAt = w.now]]]

\* Mutant: a signer who is no party to the lease is not rejected.
SignFindLease_NoPartyCheck(w, rec, ok) ==
  LET found == rec.leaseId \in LeaseIds
      lease == IF found THEN w.leases[rec.leaseId] ELSE rec.lease
  IN  [w |-> w,
       rec |-> IF ~ ok
               THEN Respond(rec, 500, "Internal Server Error")
               ELSE IF ~ found
               THEN Respond(rec, 404, "Lease not found")
               ELSE [rec EXCEPT
                       !.lease = lease, !.pc = "updateLease",
                       !.data = SignData(lease, rec.signature, rec.userId,
                                         w.now)]]

\* leases.service.js 6-52, lease.js 26-37: findUnique returns; no lease:
\* 404; the signer is neither tenant nor landlord: 403; otherwise the update
\* data is built from the lease as read and the update is awaited.
SignFindLease(w, rec, ok) ==
  LET found == rec.leaseId \in LeaseIds
      lease == IF found THEN w.leases[rec.leaseId] ELSE rec.lease
  IN  [w |-> w,
       rec |-> IF ~ ok
               THEN Respond(rec, 500, "Internal Server Error")
               ELSE IF ~ found
               THEN Respond(rec, 404, "Lease not found")
               ELSE IF lease.tenantId # rec.userId
                       /\ lease.landlordId # rec.userId
               THEN Respond([rec EXCEPT !.lease = lease], 403,
                            "You are not authorized to sign this lease")
               ELSE [rec EXCEPT
                       !.lease = lease, !.pc = "updateLease",
                       !.data = SignData(lease, rec.signature, rec.userId,
                                         w.now)]]

\* leases.service.js 40-53, lease.js 20-37: the update returns.
SignUpdateLease(w, rec, ok) ==
  IF ok
  THEN [w |-> [w EXCEPT !.leases[rec.leaseId] = rec.data],
        rec |-> Respond(rec, 200, "Signature saved successfully")]
  ELSE [w |-> w, rec |-> Respond(rec, 500, "Internal Server Error")]

(* ------------------- monitoring.service.js, users.controller.js -------- *)
\* monitoring.service.js 12-21: the row handed to prisma.activityLog.create.
MonitoringRow(userId, action, status, ip, ua, t) ==
  [userId |-> userId, action |-> action, status |-> status,
   ipAddress |-> ip, userAgent |-> ua, createdAt |-> t]

\* monitoring.service.js 43-52: failed logins from one address in the window.
FailedAttempts(l, ip, t) ==
  Cardinality({i \in 1..Len(l) :
                 /\ l[i].ipAddress = ip
                 /\ l[i].action = <<"LOGIN">>
                 /\ l[i].status = "FAILURE"
                 /\ l[i].createdAt >= t - BruteWindowMinutes})

\* users.controller.js 240-290: updateProfile validates and awaits
\* usersService.updateUser, which changes profile fields only.
UpdateProfileBegin(w, caller, ip, ua) ==
  [IdleReq EXCEPT !.kind = "updateProfile", !.pc = "updateUser",
                  !.caller = caller, !.ip = ip, !.ua = ua]

\* users.controller.js 288-311: updateUser returns; a failure is answered
\* 500, otherwise monitoringService.logActivity is called.
UpdateProfileLog(w, rec, ok) ==
  [w |-> w,
   rec |-> IF ok
           THEN [rec EXCEPT !.pc = "monitorCreate",
                            !.fullAction = <<"UPDATE", "PROFILE">>,
                            !.logStatus = "SUCCESS"]
           ELSE Respond(rec, 500, "Internal server error")]

\* Mutant: the newest row is replaced instead of a row being added.
MonitoringCreate_Overwrites(w, rec, ok) ==
  LET row == MonitoringRow(rec.caller, rec.fullAction, rec.logStatus,
                           rec.ip, rec.ua, w.now)
      did == [rec EXCEPT !.calls = Append(@, rec.fullAction)]
  IN  IF ~ ok
      THEN [w |-> w, rec |-> Respond(did, 200, "Profile updated successfully")]
      ELSE [w |-> [w EXCEPT !.log = IF @ = <<>> THEN <<row>>
                                    ELSE [@ EXCEPT ![Len(@)] = row]],
            rec |-> Respond(did, 200, "Profile updated successfully")]

\* monitoring.service.js 7-32: activityLog.create returns; a failure is
\* swallowed; after a LOGIN / FAILURE row checkBruteForce counts.
MonitoringCreate(w, rec, ok) ==
  LET row == MonitoringRow(rec.caller, rec.fullAction, rec.logStatus,
                           rec.ip, rec.ua, w.now)
      did == [rec EXCEPT !.calls = Append(@, rec.fullAction)]
  IN  IF ~ ok
      THEN [w |-> w, rec |-> Respond(did, 200, "Profile updated successfully")]
      ELSE [w |-> [w EXCEPT !.log = Append(@, row)],
            rec |-> IF rec.fullAction = <<"LOGIN">>
                       /\ rec.logStatus = "FAILURE"
                    THEN [did EXCEPT !.pc = "bruteCount"]
                    ELSE Respond(did, 200, "Profile updated successfully")]

\* monitoring.service.js 37-65: the count returns; at 5 or more createAlert
\* is called; a failure is swallowed.
CheckBruteForce(w, rec, ok) ==
  [w |-> w,
   rec |-> IF ok /\ FailedAttempts(w.log, rec.ip, w.now) >= BruteMaxAttempts
           THEN [rec EXCEPT !.pc = "createAlert"]
           ELSE Respond(rec, 200, "Profile updated successfully")]

\* monitoring.service.js 70-85: securityAlert.create returns; a failure is
\* swallowed.
CreateAlert(w, rec, ok) ==
  [w |-> [w EXCEPT
            !.alerts = IF ok
                       THEN Append(@, [userId |-> rec.caller,
                                       type |-> "BRUTE_FORCE_ATTACK",
                                       severity |-> "HIGH",
                                       ipAddress |-> rec.ip])
                       ELSE @],
   rec |-> Respond(rec, 200, "Profile updated successfully")]

(* ----------------------- POST /oauth/link, /oauth/unlink --------------- *)
\* auth.js 881-918: without a bearer token 401; provider and providerId are
\* required and the provider must be a known one, else 400; then the holder
\* of the provider id is looked up.
OauthLinkBegin(w, caller, provider, providerId) ==
  LET rec == [IdleReq EXCEPT !.kind = "oauthLink", !.caller = caller,
                             !.provider = provider,
                             !.providerId = providerId]
  IN  IF caller = NoUserId THEN Respond(rec, 401, "No token provided")
      ELSE IF provider = NoProvider \/ providerId = NoProviderId
      THEN Respond(rec, 400, "Provider and providerId are required")
      ELSE IF provider \notin Providers
      THEN Respond(rec, 400, "Invalid provider")
      ELSE [rec EXCEPT !.pc = "findLinked"]

\* prisma.user.findFirst({ [fieldName]: providerId, id: { not: userId } })
ExistingUser(ids, provider, providerId, userId) ==
  \E u \in UserIds \ {userId} : ids[u][provider] = providerId

\* auth.js 913-930: findFirst returns; another holder: 409; else the update
\* of the caller's row is awaited.
OauthLinkFind(w, rec, ok) ==
  [w |-> w,
   rec |-> IF ~ ok
           THEN Respond(rec, 500, "Internal server error")
           ELSE IF ExistingUser(w.providerIds, rec.provider, rec.providerId,
                                rec.caller)
           THEN Respond(rec, 409, "already linked to another user")
           ELSE [rec EXCEPT !.pc = "linkUpdate"]]

\* auth.js 928-958: the update returns; a rejected update is answered 500.
OauthLinkUpdate(w, rec, ok) ==
  IF ok /\ ~ (ProviderIdUnique
              /\ ExistingUser(w.providerIds, rec.provider, rec.providerId,
                              rec.caller))
  THEN [w |-> [w EXCEPT
                 !.providerIds[rec.caller][rec.provider] = rec.providerId],
        rec |-> Respond(rec, 200, "linked")]
  ELSE [w |-> w, rec |-> Respond(rec, 500, "Internal server error")]

\* auth.js 989-1038: without a bearer token 401; the provider is required
\* and must be a known one, else 400; then the update is awaited.
OauthUnlinkBegin(w, caller, provider) ==
  LET rec == [IdleReq EXCEPT !.kind = "oauthUnlink", !.caller = caller,
                             !.provider = provider]
  IN  IF caller = NoUserId THEN Respond(rec, 401, "No token provided")
      ELSE IF provider = NoProvider
      THEN Respond(rec, 400, "Provider is required")
      ELSE IF provider \notin Providers
      THEN Respond(rec, 400, "Invalid provider")
      ELSE [rec EXCEPT !.pc = "unlinkUpdate"]

\* auth.js 1021-1051: the update returns.
OauthUnlinkUpdate(w, rec, ok) ==
  IF ok
  THEN [w |-> [w EXCEPT
                 !.providerIds[rec.caller][rec.provider] = NoProviderId],
        rec |-> Respond(rec, 200, "unlinked")]
  ELSE [w |-> w, rec |-> Respond(rec, 500, "Internal server error")]

(* ------------------------------ handler runs --------------------------- *)
\* The code a suspended handler runs when the call it awaits returns.
Step(w, rec, ok) ==
  CASE rec.pc = "findUser" -> LoginFindUser(w, rec, ok)
    [] rec.pc = "isAccountLocked" -> LoginIsAccountLocked(w, rec, ok)
    [] rec.pc = "compare" -> LoginCompare(w, rec, ok)
    [] rec.pc = "logActivity" -> LoginLogActivity(w, rec, ok)
    [] rec.pc = "findMany" -> LoginFindRecent(w, rec, ok)
    [] rec.pc = "createNotification" -> LoginCreateNotification(w, rec, ok)
    [] rec.pc = "storeSecret" -> MfaStoreSecret(w, rec, ok)
    [] rec.pc = "readSecret" -> MfaReadSecret(w, rec, ok)
    [] rec.pc = "enable" -> MfaEnable(w, rec, ok)
    [] rec.pc = "clear" -> MfaClear(w, rec, ok)
    [] rec.pc = "findMfaUser" -> MfaLoginFindUser(w, rec, ok)
    [] rec.pc = "findLease" -> SignFindLease(w, rec, ok)
    [] rec.pc = "updateLease" -> SignUpdateLease(w, rec, ok)
    [] rec.pc = "updateUser" -> UpdateProfileLog(w, rec, ok)
    [] rec.pc = "findLinked" -> OauthLinkFind(w, rec, ok)
    [] rec.pc = "linkUpdate" -> OauthLinkUpdate(w, rec, ok)
    [] rec.pc = "unlinkUpdate" -> OauthUnlinkUpdate(w, rec, ok)
    [] rec.pc = "monitorCreate" -> MonitoringCreate(w, rec, ok)
    [] rec.pc = "bruteCount" -> CheckBruteForce(w, rec, ok)
    [] rec.pc = "createAlert" -> CreateAlert(w, rec, ok)

\* The outcomes of the call a request awaits: a database call succeeds or
\* fails, bcrypt.compare returns.
Outcomes(w, rec) ==
  IF rec.pc = "compare" \/ w.faults >= MaxFaults THEN {TRUE} ELSE BOOLEAN

\* One awaited call returns: the step, and the failure noted.
Resume(w, rec, ok) ==
  LET next == Step(w, rec, ok)
  IN  [w |-> [next.w EXCEPT !.faults = IF ok THEN @ ELSE @ + 1],
       rec |-> [next.rec EXCEPT !.failed = IF ok THEN @ ELSE @ \cup {rec.pc}]]

\* A handler run from a request to its response, for every outcome of the
\* calls it awaits.
RECURSIVE Runs(_, _)
Runs(w, rec) ==
  IF rec.pc = "done"
  THEN {[w |-> w, rec |-> rec]}
  ELSE UNION {Runs(Resume(w, rec, ok).w, Resume(w, rec, ok).rec) :
                ok \in Outcomes(w, rec)}

Install(w, r, rec) ==
  /\ now' = w.now
  /\ users' = w.users
  /\ log' = w.log
  /\ notifications' = w.notifications
  /\ failedCalls' = w.failedCalls
  /\ faults' = w.faults
  /\ leases' = w.leases
  /\ alerts' = w.alerts
  /\ providerIds' = w.providerIds
  /\ req' = [req EXCEPT ![r] = rec]

InFlight(r) == req[r].pc \notin {"idle", "done"}

Room(cap) ==
  /\ Len(log) < cap
  /\ Len(notifications) < MaxNotifications
  /\ Len(failedCalls) < cap

\* A login handled from request to response with nothing in between.
Login(r, email, password, ip, ua, cap) ==
  /\ ~ InFlight(r)
  /\ Room(cap)
  /\ \E run \in Runs(World, LoginBegin(World, email, password, ip, ua)) :
       Install(run.w, r, run.rec)

\* A login received: the handler runs to its first await.
LoginStart(r, email, password, ip, ua, cap) ==
  /\ ~ InFlight(r)
  /\ Room(cap)
  /\ Install(World, r, LoginBegin(World, email, password, ip, ua))

\* The MFA routes run behind the auth middleware: the caller is an existing,
\* active user.
Authenticated(u) == users[u].isActive

MfaSetup(r, file, caller, secret) ==
  /\ ~ InFlight(r)
  /\ Authenticated(caller)
  /\ \E run \in Runs(World, MfaSetupBegin(World, file, caller, secret)) :
       Install(run.w, r, run.rec)

MfaVerify(r, file, caller, token) ==
  /\ ~ InFlight(r)
  /\ Authenticated(caller)
  /\ \E run \in Runs(World, MfaVerifyBegin(World, file, caller, token)) :
       Install(run.w, r, run.rec)

MfaDisable(r, file, caller) ==
  /\ ~ InFlight(r)
  /\ Authenticated(caller)
  /\ \E run \in Runs(World, MfaDisableBegin(World, file, caller)) :
       Install(run.w, r, run.rec)

\* /mfa/login has no auth middleware: any client may send any userId.
MfaLogin(r, userId, token) ==
  /\ ~ InFlight(r)
  /\ \E run \in Runs(World, MfaLoginBegin(World, userId, token)) :
       Install(run.w, r, run.rec)

\* MFA enrolment requests received: the handler runs to its first await.
MfaSetupStart(r, file, caller, secret) ==
  /\ ~ InFlight(r)
  /\ Authenticated(caller)
  /\ Install(World, r, MfaSetupBegin(World, file, caller, secret))

MfaVerifyStart(r, file, caller, token) ==
  /\ ~ InFlight(r)
  /\ Authenticated(caller)
  /\ Install(World, r, MfaVerifyBegin(World, file, caller, token))

MfaDisableStart(r, file, caller) ==
  /\ ~ InFlight(r)
  /\ Authenticated(caller)
  /\ Install(World, r, MfaDisableBegin(World, file, caller))

\* A link or unlink request received: the handler runs to its first await.
\* The caller is the userId of the bearer token, or none without a token.
OauthLinkStart(r, caller, provider, providerId) ==
  /\ ~ InFlight(r)
  /\ Install(World, r, OauthLinkBegin(World, caller, provider, providerId))

OauthUnlinkStart(r, caller, provider) ==
  /\ ~ InFlight(r)
  /\ Install(World, r, OauthUnlinkBegin(World, caller, provider))

\* A profile update handled from request to response.
UpdateProfile(r, caller, ip, ua, cap) ==
  /\ ~ InFlight(r)
  /\ Authenticated(caller)
  /\ Room(cap)
  /\ \E run \in Runs(World, UpdateProfileBegin(World, caller, ip, ua)) :
       Install(run.w, r, run.rec)

\* A sign request handled from request to response with nothing in between.
SignLease(r, leaseId, signature, userId) ==
  /\ ~ InFlight(r)
  /\ \E run \in Runs(World, SignBegin(World, leaseId, signature, userId)) :
       Install(run.w, r, run.rec)

\* What is kept of a sign request while others run: its locals until it has
\* responded, then who asked for what and the response.
Forget(rec) ==
  IF rec.pc = "done"
  THEN [IdleReq EXCEPT !.kind = rec.kind, !.pc = "done",
                       !.leaseId = rec.leaseId, !.signature = rec.signature,
                       !.userId = rec.userId, !.status = rec.status,
                       !.body = rec.body, !.failed = rec.failed]
  ELSE [rec EXCEPT !.leasesBefore = InitLeases]

\* A sign request received: the handler runs to its first await.
SignStart(r, leaseId, signature, userId) ==
  /\ ~ InFlight(r)
  /\ Install(World, r, Forget(SignBegin(World, leaseId, signature, userId)))

\* The call a suspended sign request awaits returns and the handler runs to
\* its next await.
SignResume(r) ==
  /\ InFlight(r)
  /\ \E ok \in Outcomes(World, req[r]) :
       Install(Resume(World, req[r], ok).w, r,
               Forget(Resume(World, req[r], ok).rec))

\* The call a suspended handler awaits returns and the handler runs to its
\* next await.
HandlerResume(r) ==
  /\ InFlight(r)
  /\ \E ok \in Outcomes(World, req[r]) :
       Install(Resume(World, req[r], ok).w, r, Resume(World, req[r], ok).rec)

(* -------------------------------- clock -------------------------------- *)
Tick ==
  /\ now + TickMinutes <= MaxTicks * TickMinutes
  /\ now' = now + TickMinutes
  /\ UNCHANGED <<users, log, notifications, req, failedCalls, faults, leases,
                 alerts, providerIds>>

(* ---------------------------- specification ---------------------------- *)
\* Two accounts: user 1 is active, with or without MFA enabled; user 2 is
\* deactivated.  "nobody@x" has no account.
InitUsers ==
  \E mfa \in BOOLEAN :
    users = [u \in UserIds |->
               IF u = 1
               THEN [id |-> 1, email |-> "active@x", isActive |-> TRUE,
                     password |-> Hash("right"), mfaEnabled |-> mfa,
                     mfaSecret |-> IF mfa THEN 1 ELSE NoSecret]
               ELSE [id |-> 2, email |-> "inactive@x", isActive |-> FALSE,
                     password |-> Hash("right"), mfaEnabled |-> FALSE,
                     mfaSecret |-> NoSecret]]

Init ==
  /\ now = 0
  /\ InitUsers
  /\ log = <<>>
  /\ notifications = <<>>
  /\ req = [r \in Slots |-> IdleReq]
  /\ failedCalls = <<>>
  /\ faults = 0
  /\ leases = InitLeases
  /\ alerts = <<>>
  /\ providerIds = [u \in UserIds |-> [p \in Providers |-> NoProviderId]]

\* Logins handled one at a time, from one client address and user-agent.
Next ==
  \/ \E r \in Sequential, b \in LoginBodies :
       Login(r, b.email, b.password, "ip1", "ua1", MaxLog)
  \/ Tick

Spec == Init /\ [][Next]_vars

\* Logins handled one at a time, from varying addresses and user-agents.
NextAnomaly ==
  \/ \E r \in Sequential, b \in ActiveBodies,
        ip \in IpAddresses, ua \in UserAgents :
       Login(r, b.email, b.password, ip, ua, MaxLogAnomaly)
  \/ Tick

SpecAnomaly == Init /\ [][NextAnomaly]_vars

\* Logins suspended at their awaits, interleaved with each other and with the
\* clock.
NextConcurrent ==
  \/ \E r \in Slots, p \in {"right", "wrong"}, ip \in IpAddresses :
       LoginStart(r, "active@x", p, ip, "ua1", MaxLogConcurrent)
  \/ \E r \in Slots : HandlerResume(r)
  \/ Tick

SpecConcurrent == Init /\ [][NextConcurrent]_vars

\* MFA enrolment requests of the active user, handled one at a time.
NextMfa ==
  \/ \E r \in Sequential, f \in Files, s \in Secrets : MfaSetup(r, f, 1, s)
  \/ \E r \in Sequential, f \in Files, t \in Tokens : MfaVerify(r, f, 1, t)
  \/ \E r \in Sequential, f \in Files : MfaDisable(r, f, 1)
  \/ Tick

SpecMfa == Init /\ [][NextMfa]_vars

\* The tokens a client sends to /mfa/login: none, a short one, and the codes
\* an authenticator shows for some secret at some explored time.
AuthenticatorTokens ==
  {t \in Tokens :
     \/ t.length # TokenLength
     \/ \E sec \in Secrets, k \in 0..MaxTicks :
          t.value = TotpCode(sec, TotpCounter(k * TickMinutes))}

\* Password logins, MFA logins and MFA enrolment of the active user, handled
\* one at a time.
NextMfaLogin ==
  \/ \E r \in Sequential, p \in {"right", "wrong"} :
       Login(r, "active@x", p, "ip1", "ua1", MaxLogMfa)
  \/ \E r \in Sequential, u \in {NoUserId} \cup UserIds,
        t \in AuthenticatorTokens :
       MfaLogin(r, u, t)
  \/ \E r \in Sequential, f \in Files, s \in Secrets : MfaSetup(r, f, 1, s)
  \/ \E r \in Sequential, f \in Files, t \in AuthenticatorTokens :
       MfaVerify(r, f, 1, t)
  \/ \E r \in Sequential, f \in Files : MfaDisable(r, f, 1)
  \/ Tick

SpecMfaLogin == Init /\ [][NextMfaLogin]_vars

\* Logins and profile updates of the active user from one address, handled
\* one at a time: the callers of both logActivity functions.
NextMonitoring ==
  \/ \E r \in Sequential, p \in {"right", "wrong"} :
       Login(r, "active@x", p, "ip1", "ua1", MaxLogMonitoring)
  \/ \E r \in Sequential : UpdateProfile(r, 1, "ip1", "ua1", MaxLogMonitoring)
  \/ Tick

SpecMonitoring == Init /\ [][NextMonitoring]_vars

\* Link and unlink requests suspended at their awaits and interleaved.
NextOauth ==
  \/ \E r \in Slots, u \in {NoUserId} \cup UserIds, p \in ProviderInputs,
        id \in ProviderIdInputs :
       OauthLinkStart(r, u, p, id)
  \/ \E r \in Slots, u \in {NoUserId} \cup UserIds, p \in ProviderInputs :
       OauthUnlinkStart(r, u, p)
  \/ \E r \in Slots : HandlerResume(r)

SpecOauth == Init /\ [][NextOauth]_vars

\* Sign requests handled one at a time.
NextLease ==
  \/ \E r \in Sequential, id \in LeaseIds \cup {NoLeaseId},
        sig \in Signatures, u \in SignerIds :
       SignLease(r, id, sig, u)
  \/ Tick

SpecLease == Init /\ [][NextLease]_vars

\* Sign requests for one lease, suspended at their awaits and interleaved.
NextLeaseConcurrent ==
  \/ \E r \in Slots, sig \in {NoSignature, "sigA"}, u \in SignerIds :
       SignStart(r, "lease1", sig, u)
  \/ \E r \in Slots : SignResume(r)
  \/ Tick

SpecLeaseConcurrent == Init /\ [][NextLeaseConcurrent]_vars

\* MFA enrolment requests of the active user, suspended at their awaits and
\* interleaved.
NextMfaConcurrent ==
  \/ \E r \in Slots, f \in Files, s \in Secrets : MfaSetupStart(r, f, 1, s)
  \/ \E r \in Slots, f \in Files, t \in AuthenticatorTokens :
       MfaVerifyStart(r, f, 1, t)
  \/ \E r \in Slots, f \in Files : MfaDisableStart(r, f, 1)
  \/ \E r \in Slots : HandlerResume(r)
  \/ Tick

SpecMfaConcurrent == Init /\ [][NextMfaConcurrent]_vars

\* The deactivated user enrolled in MFA before the deactivation.
InitAccess ==
  /\ now = 0
  /\ \E mfa \in BOOLEAN :
       users = [u \in UserIds |->
                  IF u = 1
                  THEN [id |-> 1, email |-> "active@x", isActive |-> TRUE,
                        password |-> Hash("right"), mfaEnabled |-> mfa,
                        mfaSecret |-> IF mfa THEN 1 ELSE NoSecret]
                  ELSE [id |-> 2, email |-> "inactive@x", isActive |-> FALSE,
                        password |-> Hash("right"), mfaEnabled |-> TRUE,
                        mfaSecret |-> 2]]
  /\ log = <<>>
  /\ notifications = <<>>
  /\ req = [r \in Slots |-> IdleReq]
  /\ failedCalls = <<>>
  /\ faults = 0
  /\ leases = InitLeases
  /\ alerts = <<>>
  /\ providerIds = [u \in UserIds |-> [p \in Providers |-> NoProviderId]]

\* Password logins and MFA logins of both users, handled one at a time.
NextAccess ==
  \/ \E r \in Sequential, b \in ActiveBodies \cup
                                 {[email |-> "inactive@x", password |-> "right"]} :
       Login(r, b.email, b.password, "ip1", "ua1", MaxLogAccess)
  \/ \E r \in Sequential, u \in UserIds, t \in AuthenticatorTokens :
       MfaLogin(r, u, t)
  \/ Tick

SpecAccess == InitAccess /\ [][NextAccess]_vars

\* Wrong-password logins of the active user, suspended at their awaits and
\* interleaved.
NextLockRace ==
  \/ \E r \in Slots : LoginStart(r, "active@x", "wrong", "ip1", "ua1", MaxLog)
  \/ \E r \in Slots : HandlerResume(r)
  \/ Tick

SpecLockRace == Init /\ [][NextLockRace]_vars

(* ------------------------------- claims -------------------------------- *)
Blocked == <<"LOGIN", "BLOCKED">>
Failed == <<"LOGIN", "FAILED">>
Success == <<"LOGIN", "SUCCESS">>

Range(f) == {f[i] : i \in DOMAIN f}

DoneLogins == {r \in Slots : req[r].kind = "login" /\ req[r].pc = "done"}
DoneVerifies == {r \in Slots : req[r].kind = "mfaVerify" /\ req[r].pc = "done"}

\* The login passed validation, found an active user and asked for the
\* failure count.
ReachedLockCheck(r) == req[r].user.isActive
CountFailed(r) == "isAccountLocked" \in req[r].failed
PasswordMatches(r) == BcryptCompare(req[r].password, req[r].user.password)

\* C1 as claimed: with 5 or more counted failures in the window when the lock
\* is checked, the login returns 423 and the password is not compared.
C1_LockedReturns423 ==
  \A r \in DoneLogins :
    ReachedLockCheck(r) /\ req[r].failedLoginsAtCheck >= MaxFailedLogins
      => req[r].status = 423 /\ ~ req[r].compared

\* C1 amended: the same, provided the count query of isAccountLocked
\* succeeded.
C1_LockedReturns423WhenCounted ==
  \A r \in DoneLogins :
    /\ ReachedLockCheck(r)
    /\ req[r].failedLoginsAtCheck >= MaxFailedLogins
    /\ ~ CountFailed(r)
    => req[r].status = 423 /\ ~ req[r].compared

\* C1 witness: a login with the correct password is answered 423.
C1_Witness ==
  \E r \in DoneLogins :
    /\ req[r].failedLoginsAtCheck >= MaxFailedLogins
    /\ req[r].password = "right"
    /\ req[r].status = 423
    /\ ~ req[r].compared

\* C2 as claimed: after five wrong-password attempts inside the window the
\* next attempt returns 423, whatever its password.
C2_SixthAttemptLocked ==
  \A r \in DoneLogins :
    ReachedLockCheck(r) /\ req[r].wrongAtCheck >= MaxFailedLogins
      => req[r].status = 423

\* C2 amended: after five wrong-password attempts inside the window whose
\* LOGIN_FAILED rows were written, the next attempt returns 423, whatever its
\* password, provided its count query succeeds.
C2_SixthAttemptLockedWhenLogged ==
  \A r \in DoneLogins :
    /\ ReachedLockCheck(r)
    /\ req[r].loggedWrongAtCheck >= MaxFailedLogins
    /\ ~ CountFailed(r)
    => req[r].status = 423

\* C2 witness: from an empty log, five wrong passwords, then the correct
\* password is answered 423.
C2_Witness ==
  \E r \in DoneLogins :
    /\ Len(failedCalls) = MaxFailedLogins
    /\ req[r].wrongAtCheck = MaxFailedLogins
    /\ Len(log) = MaxFailedLogins + 1
    /\ req[r].password = "right"
    /\ req[r].status = 423

\* C3: a login rejected as locked calls logActivity with LOGIN_BLOCKED only;
\* the row it writes is not a LOGIN / FAILURE row and leaves the counted number
\* as it was; and a login that finds fewer than 5 counted failures is not
\* rejected as locked: its password is compared, whatever LOGIN_BLOCKED rows
\* the log holds.
C3_BlockedNeverCounts ==
  \A r \in DoneLogins :
    /\ req[r].status = 423 =>
         /\ req[r].calls = <<Blocked>>
         /\ req[r].ownEntry # 0 =>
              /\ log[req[r].ownEntry].action = Blocked
              /\ log[req[r].ownEntry].status = "INFO"
         /\ FailedLogins(log, req[r].user.id, req[r].checkedAt)
              = req[r].failedLoginsAtCheck
    /\ ReachedLockCheck(r) /\ req[r].failedLoginsAtCheck < MaxFailedLogins
         => req[r].status # 423 /\ req[r].compared

\* C3 witness: after five failures and a logged blocked attempt, a later
\* login finds fewer than 5 counted failures and has its password compared.
C3_Witness ==
  \E r \in DoneLogins :
    /\ req[r].compared
    /\ req[r].failedLoginsAtCheck < MaxFailedLogins
    /\ \E i \in 1..Len(log) : log[i].action = Blocked
    /\ Cardinality({i \in 1..Len(log) : log[i].status = "FAILURE"})
         >= MaxFailedLogins

\* C4 as claimed: a token is returned only to an existing, active user with
\* fewer than 5 counted failures, a matching password and MFA off, after
\* LOGIN_SUCCESS was logged; a mismatch logs LOGIN_FAILED and returns 401.
C4_TokenOnlyWhenAllHold ==
  \A r \in DoneLogins :
    /\ req[r].body = "token" =>
         /\ req[r].user.id # NoUserId /\ req[r].user.isActive
         /\ req[r].failedLoginsAtCheck < MaxFailedLogins
         /\ PasswordMatches(r)
         /\ ~ req[r].user.mfaEnabled
         /\ req[r].calls = <<Success>>
    /\ req[r].compared /\ ~ PasswordMatches(r) =>
         /\ req[r].calls = <<Failed>>
         /\ req[r].status = 401
         /\ req[r].body # "token"
    /\ req[r].compared /\ PasswordMatches(r) => req[r].calls = <<Success>>

\* C4 amended: "not locked" is what isAccountLocked reported: fewer than 5
\* counted failures, or a count query that failed.
C4_TokenOnlyWhenNotReportedLocked ==
  \A r \in DoneLogins :
    /\ req[r].body = "token" =>
         /\ req[r].user.id # NoUserId /\ req[r].user.isActive
         /\ req[r].failedLoginsAtCheck < MaxFailedLogins \/ CountFailed(r)
         /\ PasswordMatches(r)
         /\ ~ req[r].user.mfaEnabled
         /\ req[r].calls = <<Success>>
    /\ req[r].compared /\ ~ PasswordMatches(r) =>
         /\ req[r].calls = <<Failed>>
         /\ req[r].status = 401
         /\ req[r].body # "token"
    /\ req[r].compared /\ PasswordMatches(r) => req[r].calls = <<Success>>

\* C4 witness: a token is returned.
C4_Witness ==
  \E r \in DoneLogins :
    /\ req[r].body = "token"
    /\ req[r].status = 200
    /\ \E i \in 1..Len(log) : log[i].status = "FAILURE"

\* C5 as claimed: every login attempt that passes validation, with every
\* database call succeeding, calls logActivity exactly once.
C5_OneLogWritePerAttempt ==
  \A r \in DoneLogins :
    req[r].password # "" /\ req[r].failed = {} => Len(req[r].calls) = 1

\* The response the handler gives when nothing fails after the lock check.
ExpectedResponse(r) ==
  IF req[r].password = "" THEN <<400, "errors">>
  ELSE IF "findUser" \in req[r].failed THEN <<500, "Internal server error">>
  ELSE IF ~ FindUserByEmail(users, req[r].email).isActive
  THEN <<401, "Invalid credentials">>
  ELSE IF req[r].locked THEN <<423, "Account temporarily locked">>
  ELSE IF ~ PasswordMatches(r) THEN <<401, "Invalid credentials">>
  ELSE IF req[r].user.mfaEnabled THEN <<200, "requiresMFA">>
  ELSE <<200, "token">>

SideEffects == {"logActivity", "findMany", "createNotification"}

\* C6: the response of a login is the one decided by validation, the user
\* lookup, the lock check, the password and the MFA flag; a failed log write,
\* history query or notification insert does not change it.
C6_SideEffectFailuresDoNotChangeResponse ==
  \A r \in DoneLogins : <<req[r].status, req[r].body>> = ExpectedResponse(r)

\* C6 witness: a side effect failed and the login still returned its token.
C6_Witness ==
  \E r \in DoneLogins :
    /\ req[r].failed # {}
    /\ req[r].failed \subseteq SideEffects
    /\ req[r].status = 200

\* The current user-agent (IP address) equals that of no compared row.
NewUserAgent(r) ==
  \A k \in Range(req[r].compareSet) : log[k].userAgent # req[r].ua
NewIpAddress(r) ==
  \A k \in Range(req[r].compareSet) : log[k].ipAddress # req[r].ip
PasswordLogins == {r \in DoneLogins : Success \in Range(req[r].calls)}

\* C7 as claimed: with every call succeeding, a notification is created iff
\* both the user-agent and the IP address are new.
C7_NotifiedIffBothNew ==
  \A r \in PasswordLogins :
    req[r].failed = {} =>
      (req[r].created = 1 <=> NewUserAgent(r) /\ NewIpAddress(r))

\* C7 amended: a notification is created iff the history query and the insert
\* succeed and the user-agent or the IP address is new.
C7_NotifiedIffEitherNew ==
  \A r \in PasswordLogins :
    /\ req[r].created \in {0, 1}
    /\ req[r].created = 1 <=>
         /\ NewUserAgent(r) \/ NewIpAddress(r)
         /\ req[r].failed \cap {"findMany", "createNotification"} = {}

\* C7 witness: a known user-agent at a new IP address is notified.
C7_Witness ==
  \E r \in PasswordLogins :
    /\ req[r].created = 1
    /\ ~ NewUserAgent(r)
    /\ NewIpAddress(r)

\* Neither the IP address nor the user-agent of the login is that of another
\* successful login of the user in the log.
NeverSeen(r) ==
  \A i \in 1..Len(log) :
    /\ i # req[r].ownEntry
    /\ log[i].userId = req[r].user.id
    /\ log[i].action = <<"LOGIN">>
    /\ log[i].status = "SUCCESS"
    => /\ log[i].ipAddress # req[r].ip
       /\ log[i].userAgent # ActivityRow(0, Success, "", req[r].ua, 0).userAgent

NotificationsAdded(r) == Len(notifications) - req[r].notificationsBefore

\* C8 as claimed: a successful login from a never-seen IP address and
\* user-agent adds exactly one notification row.
C8_ExactlyOneNotification ==
  \A r \in PasswordLogins : NeverSeen(r) => NotificationsAdded(r) = 1

\* C8 amended: it adds exactly one row when the history query and the insert
\* succeed, and none when either fails.
C8_ExactlyOneNotificationUnlessFailed ==
  \A r \in PasswordLogins :
    NeverSeen(r) =>
      NotificationsAdded(r) =
        IF req[r].failed \cap {"findMany", "createNotification"} = {}
        THEN 1 ELSE 0

\* C8 witness: the user has logged in before, and a login from another
\* address and user-agent adds one row.
C8_Witness ==
  \E r \in PasswordLogins :
    /\ NeverSeen(r)
    /\ NotificationsAdded(r) = 1
    /\ \E i \in 1..Len(log) : i # req[r].ownEntry /\ log[i].status = "SUCCESS"

\* C9 as claimed: the rows compared are the rows fetched minus exactly the
\* row written for this login.
C9_ComparedIsFetchedMinusOwn ==
  \A r \in PasswordLogins :
    req[r].queried /\ "findMany" \notin req[r].failed =>
      Range(req[r].compareSet) = Range(req[r].fetched) \ {req[r].ownEntry}

\* C10 as claimed: with every database call succeeding, /mfa/verify answers
\* 200 and leaves mfaEnabled true iff the code validates against the stored
\* secret within the handler's window; an invalid code leaves mfaEnabled as
\* it was.
C10_VerifyEnablesIffValid ==
  \A r \in DoneVerifies :
    req[r].failed = {} =>
      /\ (req[r].status = 200 /\ users[req[r].caller].mfaEnabled)
           <=> req[r].verified
      /\ ~ req[r].verified =>
           users[req[r].caller].mfaEnabled = req[r].enabledBefore

DoneMfaLogins == {r \in Slots : req[r].kind = "mfaLogin" /\ req[r].pc = "done"}
DoneDisables ==
  {r \in Slots : req[r].kind = "mfaDisable" /\ req[r].pc = "done"}

\* The code submitted to /mfa/login is valid for the secret the user had
\* stored when the handler looked the user up.
CodeValid(r) ==
  /\ req[r].secret # NoSecret
  /\ TotpVerify(req[r].secret, req[r].token, VerifyWindowAuth,
                req[r].checkedAt)

\* C11: a password-valid login of a user with mfaEnabled answers 200
\* 'requiresMFA' and no token; /mfa/login returns a token only for a user
\* with MFA enabled and a code valid for the stored secret; an invalid code
\* for such a user is answered 401 (500 if the lookup fails), without a token.
C11_MfaLoginTokenOnlyForValidCode ==
  /\ \A r \in DoneLogins :
       req[r].compared /\ PasswordMatches(r) /\ req[r].user.mfaEnabled
         => /\ req[r].status = 200
            /\ req[r].body = "requiresMFA"
            /\ req[r].user.id = FindUserByEmail(users, req[r].email).id
  /\ \A r \in DoneMfaLogins :
       /\ req[r].body = "token"
            => req[r].status = 200 /\ req[r].enabledBefore /\ CodeValid(r)
       /\ req[r].userId # NoUserId /\ req[r].token # NoToken /\ ~ CodeValid(r)
            => /\ req[r].body # "token"
               /\ req[r].enabledBefore /\ req[r].secret # NoSecret
                    => req[r].status = 401

\* C11 witness: a wrong code was answered 401 for a user with MFA enabled.
C11_Witness ==
  \E r \in DoneMfaLogins :
    /\ req[r].enabledBefore
    /\ req[r].token.length = TokenLength
    /\ ~ CodeValid(r)
    /\ req[r].status = 401

\* C12: a successful /mfa/disable leaves mfaEnabled false and mfaSecret null;
\* a password-valid login of a user without mfaEnabled returns the token;
\* /mfa/login for a user without mfaEnabled is answered 400 (500 if the lookup
\* fails) without a token; mfaEnabled becomes true again only by a successful
\* /mfa/verify, and mfaSecret non-null again only by a successful /mfa/setup.
C12_DisableClearsMfa ==
  /\ [](/\ \A r \in DoneDisables :
             req[r].status = 200
               => /\ ~ users[req[r].caller].mfaEnabled
                  /\ users[req[r].caller].mfaSecret = NoSecret
        /\ \A r \in DoneLogins :
             req[r].compared /\ PasswordMatches(r) /\ ~ req[r].user.mfaEnabled
               => req[r].status = 200 /\ req[r].body = "token"
        /\ \A r \in DoneMfaLogins :
             req[r].failed = {} /\ req[r].userId # NoUserId
             /\ req[r].token # NoToken /\ ~ req[r].enabledBefore
               => req[r].status = 400 /\ req[r].body # "token")
  /\ [][\A u \in UserIds :
          /\ ~ users[u].mfaEnabled /\ users'[u].mfaEnabled
               => \E r \in Slots :
                    /\ req'[r].kind = "mfaVerify" /\ req'[r].caller = u
                    /\ req'[r].status = 200
          /\ users[u].mfaSecret = NoSecret /\ users'[u].mfaSecret # NoSecret
               => \E r \in Slots :
                    /\ req'[r].kind = "mfaSetup" /\ req'[r].caller = u
                    /\ req'[r].status = 200]_vars

\* C12 witness: MFA was enabled, and /mfa/disable cleared it.
C12_Witness ==
  \E r \in DoneDisables :
    /\ req[r].enabledBefore
    /\ req[r].status = 200
    /\ ~ users[req[r].caller].mfaEnabled
    /\ users[req[r].caller].mfaSecret = NoSecret

\* C19 as claimed: every /mfa/login attempt that verified a code has logged
\* it: an accepted code as LOGIN_SUCCESS, a rejected one as LOGIN_FAILED.
C19_MfaLoginAttemptsLogged ==
  \A r \in DoneMfaLogins :
    req[r].status \in {200, 401} =>
      req[r].calls = <<IF req[r].status = 200 THEN Success ELSE Failed>>

Statuses == {"PENDING", "TENANT_SIGNED", "LANDLORD_SIGNED", "FULLY_SIGNED"}
DoneSigns == {r \in Slots : req[r].kind = "sign" /\ req[r].pc = "done"}
\* The lease a sign request names, before the request and now.
LeaseBefore(r) == req[r].leasesBefore[req[r].leaseId]
LeaseAfter(r) == leases[req[r].leaseId]
\* Sign requests that were acknowledged, on a lease with two distinct parties.
SignedByOneParty ==
  {r \in DoneSigns :
     /\ req[r].status = 200
     /\ LeaseBefore(r).tenantId # LeaseBefore(r).landlordId}
ByTenant(r) == req[r].userId = LeaseBefore(r).tenantId
ByLandlord(r) == req[r].userId = LeaseBefore(r).landlordId

\* C13: for any interleaving of sign requests the stored status is one of the
\* four and is the one the stored signatures determine.
C13_StatusMatchesSignatures ==
  \A id \in LeaseIds :
    LET tenantSigned == leases[id].tenantSignature # NoSignature
        landlordSigned == leases[id].landlordSignature # NoSignature
        status == leases[id].signatureStatus
    IN  /\ status \in Statuses
        /\ status = "FULLY_SIGNED" <=> tenantSigned /\ landlordSigned
        /\ status = "TENANT_SIGNED" <=> tenantSigned /\ ~ landlordSigned
        /\ status = "LANDLORD_SIGNED" <=> ~ tenantSigned /\ landlordSigned
        /\ status = "PENDING" <=> ~ tenantSigned /\ ~ landlordSigned

\* C13 witness: the tenant's request was acknowledged and a landlord's
\* request that had read the lease earlier wrote afterwards.
C13_Witness ==
  /\ leases["lease1"].signatureStatus = "LANDLORD_SIGNED"
  /\ \E r \in DoneSigns :
       /\ req[r].userId = leases["lease1"].tenantId
       /\ req[r].leaseId = "lease1"
       /\ req[r].status = 200

\* C14: with sign requests handled one after the other, the tenant's
\* signature on a PENDING lease gives TENANT_SIGNED and the landlord's then
\* gives FULLY_SIGNED; the landlord's on a PENDING lease gives LANDLORD_SIGNED
\* and the tenant's then gives FULLY_SIGNED.
C14_StatusFollowsSignatures ==
  \A r \in SignedByOneParty :
    /\ LeaseBefore(r).signatureStatus = "PENDING" /\ ByTenant(r)
         => LeaseAfter(r).signatureStatus = "TENANT_SIGNED"
    /\ LeaseBefore(r).signatureStatus = "PENDING" /\ ByLandlord(r)
         => LeaseAfter(r).signatureStatus = "LANDLORD_SIGNED"
    /\ LeaseBefore(r).signatureStatus = "TENANT_SIGNED" /\ ByLandlord(r)
         => LeaseAfter(r).signatureStatus = "FULLY_SIGNED"
    /\ LeaseBefore(r).signatureStatus = "LANDLORD_SIGNED" /\ ByTenant(r)
         => LeaseAfter(r).signatureStatus = "FULLY_SIGNED"

\* C14 witness: the landlord signed first, then the tenant.
C14_Witness ==
  \E r \in SignedByOneParty :
    /\ LeaseBefore(r).signatureStatus = "LANDLORD_SIGNED"
    /\ ByTenant(r)
    /\ LeaseAfter(r).signatureStatus = "FULLY_SIGNED"

\* C15: an acknowledged sign request of one party leaves the other party's
\* signature and timestamp, and every other lease, as they were; when the
\* party had signed before, its signature is replaced and the status stays.
C15_OtherPartyUntouched ==
  \A r \in SignedByOneParty :
    /\ \A id \in LeaseIds \ {req[r].leaseId} :
         leases[id] = req[r].leasesBefore[id]
    /\ ByTenant(r) =>
         /\ LeaseAfter(r).landlordSignature = LeaseBefore(r).landlordSignature
         /\ LeaseAfter(r).landlordSignedAt = LeaseBefore(r).landlordSignedAt
         /\ LeaseAfter(r).tenantSignature = req[r].signature
         /\ LeaseBefore(r).tenantSignature # NoSignature
              => LeaseAfter(r).signatureStatus
                   = LeaseBefore(r).signatureStatus
    /\ ByLandlord(r) =>
         /\ LeaseAfter(r).tenantSignature = LeaseBefore(r).tenantSignature
         /\ LeaseAfter(r).tenantSignedAt = LeaseBefore(r).tenantSignedAt
         /\ LeaseAfter(r).landlordSignature = req[r].signature
         /\ LeaseBefore(r).landlordSignature # NoSignature
              => LeaseAfter(r).signatureStatus
                   = LeaseBefore(r).signatureStatus

\* C15 witness: the tenant signs again, with another signature and at a
\* later time, on a lease the landlord has signed.
C15_Witness ==
  \E r \in SignedByOneParty :
    /\ ByTenant(r)
    /\ LeaseBefore(r).landlordSignature # NoSignature
    /\ LeaseBefore(r).tenantSignature \notin {NoSignature, req[r].signature}
    /\ LeaseAfter(r).tenantSignedAt # LeaseBefore(r).tenantSignedAt
    /\ LeaseAfter(r).landlordSignedAt # LeaseAfter(r).tenantSignedAt

\* C16: a request without a signature is answered 400; with one, an unknown
\* lease id is answered 404 'Lease not found' and a signer who is no party
\* 403; and a request answered 400, 404 or 403 changes no lease.
C16_RejectedSignChangesNothing ==
  \A r \in DoneSigns :
    /\ Falsy(req[r].signature) => req[r].status = 400
    /\ ~ Falsy(req[r].signature) /\ req[r].failed = {} =>
         /\ req[r].leaseId \notin LeaseIds
              => req[r].status = 404 /\ req[r].body = "Lease not found"
         /\ req[r].leaseId \in LeaseIds
            /\ req[r].userId \notin {LeaseBefore(r).tenantId,
                                     LeaseBefore(r).landlordId}
              => req[r].status = 403
    /\ req[r].status \in {400, 403, 404} => leases = req[r].leasesBefore

\* C16 witness: a stranger's request on a partly signed lease is answered 403.
C16_Witness ==
  \E r \in DoneSigns :
    /\ req[r].status = 403
    /\ req[r].leaseId \in LeaseIds
    /\ LeaseAfter(r).signatureStatus = "TENANT_SIGNED"

\* C17 as claimed: once a failed login is recorded and 5 or more LOGIN /
\* FAILURE rows from its address lie in the 15 minutes before it, a
\* BRUTE_FORCE_ATTACK alert exists.
C17_FailedLoginsRaiseAlert ==
  \A r \in DoneLogins :
    /\ req[r].calls = <<Failed>>
    /\ req[r].ownEntry # 0
    /\ FailedAttempts(log, req[r].ip, log[req[r].ownEntry].createdAt)
         >= BruteMaxAttempts
    => \E i \in 1..Len(alerts) : alerts[i].type = "BRUTE_FORCE_ATTACK"

\* C18: every step leaves the rows of the activity log as they were and at
\* most adds rows after them.
C18_LogAppendOnly ==
  [][/\ Len(log') >= Len(log)
     /\ SubSeq(log', 1, Len(log)) = log]_vars

\* C18 witness: both logActivity functions have written rows.
C18_Witness ==
  /\ \E i \in 1..Len(log) : log[i].action = <<"UPDATE", "PROFILE">>
  /\ \E i \in 1..Len(log) : log[i].action = <<"LOGIN">>
  /\ Len(log) >= 3

\* C20 as claimed: no provider account id is held by two users.
C20_ProviderIdHeldByOneUser ==
  \A p \in Providers : \A u1, u2 \in UserIds :
    u1 # u2 /\ providerIds[u1][p] # NoProviderId
      => providerIds[u1][p] # providerIds[u2][p]

DoneSetups == {r \in Slots : req[r].kind = "mfaSetup" /\ req[r].pc = "done"}

\* C23 as claimed: a successful /mfa/setup leaves mfaEnabled as it was, and
\* on an account with mfaEnabled it leaves the secret /mfa/login validates
\* against as it was.
C23_SetupKeepsLoginSecret ==
  \A r \in DoneSetups :
    req[r].status = 200 =>
      /\ users[req[r].caller].mfaEnabled = req[r].enabledBefore
      /\ req[r].enabledBefore
           => users[req[r].caller].mfaSecret = req[r].secretBefore

\* C26 as claimed: no acknowledged sign request moves a lease from PENDING
\* to FULLY_SIGNED, also on a lease whose tenant is its landlord.
C26_OneCallOneSignature ==
  \A r \in DoneSigns :
    req[r].status = 200 /\ LeaseBefore(r).signatureStatus = "PENDING"
      => /\ LeaseAfter(r).signatureStatus # "FULLY_SIGNED"
         /\ LeaseAfter(r).tenantSignature = NoSignature
              \/ LeaseAfter(r).landlordSignature = NoSignature

\* C28: a login whose failure count query failed is treated as not locked:
\* its password is compared and it is answered neither 423 nor 500.
C28_CountErrorMeansNotLocked ==
  \A r \in DoneLogins :
    CountFailed(r) =>
      /\ ~ req[r].locked
      /\ req[r].compared
      /\ req[r].status \notin {423, 500}
      /\ req[r].status = IF PasswordMatches(r) THEN 200 ELSE 401

\* C28 witness: the count failed for an account with 5 counted failures and
\* the password was compared.
C28_Witness ==
  \E r \in DoneLogins :
    /\ CountFailed(r)
    /\ req[r].failedLoginsAtCheck >= MaxFailedLogins
    /\ req[r].compared

\* A successful login of the user is logged inside the window in which the
\* lock check of r counted.
SuccessInWindow(r) ==
  \E i \in 1..Len(log) :
    /\ log[i].userId = req[r].user.id
    /\ log[i].status = "SUCCESS"
    /\ log[i].createdAt >= req[r].checkedAt - LockWindowMinutes
    /\ i # req[r].ownEntry

\* C29: with the count succeeding, a login is locked exactly when 5 or more
\* wrong-password attempts were logged in the 15 minutes before it, whether
\* or not a successful login lies among them.
C29_SuccessDoesNotResetCount ==
  \A r \in DoneLogins :
    ReachedLockCheck(r) /\ ~ CountFailed(r) =>
      /\ req[r].locked <=> req[r].loggedWrongAtCheck >= MaxFailedLogins
      /\ req[r].locked <=> req[r].status = 423
      /\ SuccessInWindow(r) /\ req[r].loggedWrongAtCheck >= MaxFailedLogins
           => req[r].status = 423

\* C29 witness: four failures, a success and a fifth failure are logged, and
\* the next login is answered 423.
C29_Witness ==
  \E r \in DoneLogins :
    /\ Len(log) = MaxFailedLogins + 2
    /\ \A i \in 1..(MaxFailedLogins - 1) : log[i].status = "FAILURE"
    /\ log[MaxFailedLogins].status = "SUCCESS"
    /\ log[MaxFailedLogins + 1].status = "FAILURE"
    /\ req[r].status = 423
    /\ req[r].ownEntry = MaxFailedLogins + 2

\* C30 as claimed: a password-valid login of a user with mfaEnabled, which
\* answers 'MFA required', has logged no LOGIN_SUCCESS and has written no row.
C30_NoSuccessBeforeMfa ==
  \A r \in DoneLogins :
    req[r].body = "requiresMFA" =>
      /\ Success \notin Range(req[r].calls)
      /\ req[r].ownEntry = 0

\* C29 as claimed: a login is answered 423 exactly when the log holds 5 or
\* more LOGIN/FAILURE entries of the user in the trailing 15 minutes.
C29_LockDependsOnlyOnFailures ==
  \A r \in DoneLogins :
    ReachedLockCheck(r) =>
      (req[r].status = 423 <=> req[r].failedLoginsAtCheck >= MaxFailedLogins)

\* C22 as claimed: whatever the interleaving of setup, verify and disable
\* requests, a user with mfaEnabled has a stored secret.
C22_EnabledHasSecret ==
  \A u \in UserIds : users[u].mfaEnabled => users[u].mfaSecret # NoSecret

\* C24 as claimed: whatever the interleaving of sign requests, a lease that
\* is FULLY_SIGNED stays so and a stored signature never becomes null again.
C24_StatusNeverRegresses ==
  [][\A id \in LeaseIds :
       /\ leases[id].signatureStatus = "FULLY_SIGNED"
            => leases'[id].signatureStatus = "FULLY_SIGNED"
       /\ leases[id].tenantSignature # NoSignature
            => leases'[id].tenantSignature # NoSignature
       /\ leases[id].landlordSignature # NoSignature
            => leases'[id].landlordSignature # NoSignature]_vars

\* C25 as claimed: when a sign request of the tenant and one of the landlord
\* have both been acknowledged, the lease holds both signatures and is
\* FULLY_SIGNED.
C25_BothSignaturesKept ==
  \A r1, r2 \in DoneSigns :
    /\ req[r1].status = 200 /\ req[r2].status = 200
    /\ req[r1].leaseId = req[r2].leaseId
    /\ req[r1].userId = leases[req[r1].leaseId].tenantId
    /\ req[r2].userId = leases[req[r2].leaseId].landlordId
    => /\ leases[req[r1].leaseId].tenantSignature # NoSignature
       /\ leases[req[r1].leaseId].landlordSignature # NoSignature
       /\ leases[req[r1].leaseId].signatureStatus = "FULLY_SIGNED"

\* C27 as claimed: /login and /mfa/login return a token only to a user who
\* is active and has fewer than 5 LOGIN/FAILURE entries in the trailing 15
\* minutes.
C27_NoTokenForInactiveOrLocked ==
  \A r \in DoneLogins \cup DoneMfaLogins :
    req[r].body = "token" =>
      /\ req[r].user.isActive
      /\ req[r].failedLoginsAtCheck < MaxFailedLogins

\* The wrong-password logins that have logged their failure.
FailedLoginsDone ==
  {r \in DoneLogins : req[r].calls = <<Failed>>}
AllFailuresLogged == \A i \in 1..Len(failedCalls) : failedCalls[i].ok
\* The wrong-password logins that logged their failure between the count and
\* the log write of r.
Overtaken(r) == (Len(failedCalls) - 1) - req[r].callsAtCheck

\* C21 as claimed: with every log write succeeding, the wrong-password
\* comparisons in the 15 minutes up to a login's own failure entry number at
\* most 5 plus the logins that logged a failure between its count and its
\* write (none when logins are handled one at a time).
C21_FailuresBounded ==
  \A r \in FailedLoginsDone :
    AllFailuresLogged /\ req[r].ownEntry = Len(log) =>
      req[r].wrongAfterWrite <= MaxFailedLogins + Overtaken(r)

\* C21 amended: the same, for logins whose own failure count succeeded.
C21_FailuresBoundedWhenCounted ==
  \A r \in FailedLoginsDone :
    AllFailuresLogged /\ req[r].ownEntry = Len(log) /\ ~ CountFailed(r) =>
      req[r].wrongAfterWrite <= MaxFailedLogins + Overtaken(r)

\* C21 witness: two interleaved logins both counted 4 failures and the later
\* write made the sixth failure entry of the window.
C21_Witness ==
  \E r \in FailedLoginsDone :
    /\ AllFailuresLogged /\ req[r].ownEntry = Len(log) /\ ~ CountFailed(r)
    /\ req[r].wrongAfterWrite = MaxFailedLogins + 1
    /\ Overtaken(r) = 1

====
